---- MODULE Spec2Model ----
(***************************************************************************)
(* Model of src/main.py: the command-line conversation loop of main().     *)
(*                                                                         *)
(* Text is modelled as a sequence of one-character strings, so that        *)
(* str.strip(), str.lower() and print() are computed character by          *)
(* character.  A character outside ASCII is written as its code point      *)
(* ("U+1F44B").                                                            *)
(*                                                                         *)
(* Standard output is taken to accept every write: print() returns.  The   *)
(* traceback of an uncaught exception goes to standard error and is not    *)
(* part of output.                                                         *)
(***************************************************************************)
EXTENDS Integers, Sequences, FiniteSets

(***************************************************************************)
(* Bounds.                                                                 *)
(***************************************************************************)
\* Number of input() calls that return a line in one run.
MaxReads == 3

(***************************************************************************)
(* Text helpers: what str.strip(), str.lower() and print() compute.        *)
(***************************************************************************)
\* Characters str.strip() removes (the ASCII whitespace the model can write).
Whitespace == {" ", "\t", "\n", "\r", "\f"}

UpperLetters ==
    <<"A", "B", "C", "D", "E", "F", "G", "H", "I", "J", "K", "L", "M",
      "N", "O", "P", "Q", "R", "S", "T", "U", "V", "W", "X", "Y", "Z">>

LowerLetters ==
    <<"a", "b", "c", "d", "e", "f", "g", "h", "i", "j", "k", "l", "m",
      "n", "o", "p", "q", "r", "s", "t", "u", "v", "w", "x", "y", "z">>

\* str.lower() on one character.
LowerChar(c) ==
    IF \E i \in 1..Len(UpperLetters) : UpperLetters[i] = c
    THEN LowerLetters[CHOOSE i \in 1..Len(UpperLetters) : UpperLetters[i] = c]
    ELSE c

\* str.lower(): every cased character replaced by its lowercase form.
Lower(s) == [i \in 1..Len(s) |-> LowerChar(s[i])]

\* str.lstrip(): drop the leading whitespace.
RECURSIVE LStrip(_)
LStrip(s) ==
    IF s # <<>> /\ Head(s) \in Whitespace THEN LStrip(Tail(s)) ELSE s

\* str.rstrip(): drop the trailing whitespace.
RECURSIVE RStrip(_)
RStrip(s) ==
    IF s # <<>> /\ s[Len(s)] \in Whitespace
    THEN RStrip(SubSeq(s, 1, Len(s) - 1))
    ELSE s

\* A plausible slip: only the leading whitespace is removed.
Strip_LeadingOnly(s) == LStrip(s)

\* str.strip(): drop the whitespace on both sides.
Strip(s) == RStrip(LStrip(s))

\* sep.join(args) of print(): the arguments separated by one space.
RECURSIVE JoinArgs(_)
JoinArgs(args) ==
    IF args = <<>> THEN <<>>
    ELSE IF Len(args) = 1 THEN Head(args)
    ELSE Head(args) \o <<" ">> \o JoinArgs(Tail(args))

\* What print(*args) writes to standard output: sep = " ", end = "\n".
PrintCall(args) == JoinArgs(args) \o <<"\n">>

(***************************************************************************)
(* Literals of main().                                                     *)
(***************************************************************************)
BannerWelcome ==
    <<"W", "e", "l", "c", "o", "m", "e", "!", " ", "I", " ", "a", "m", " ",
      "y", "o", "u", "r", " ", "G", "e", "m", "i", "n", "i", " ", "A", "I",
      " ", "a", "s", "s", "i", "s", "t", "a", "n", "t", " ", "U+1F916">>

BannerHelp ==
    <<"A", "s", "k", " ", "m", "e", " ", "a", "n", "y", "t", "h", "i", "n",
      "g", " ", "a", "b", "o", "u", "t", " ", "t", "e", "c", "h", "n", "o",
      "l", "o", "g", "y", ",", " ", "s", "c", "i", "e", "n", "c", "e", ",",
      " ", "h", "i", "s", "t", "o", "r", "y", ",", " ", "o", "r", " ", "j",
      "u", "s", "t", " ", "c", "h", "a", "t", "!", " ", "(", "t", "y", "p",
      "e", " ", "'", "q", "u", "i", "t", "'", " ", "t", "o", " ", "e", "x",
      "i", "t", ")", "\n">>

Farewell == <<"G", "o", "o", "d", "b", "y", "e", "!", " ", "U+1F44B">>

AssistantLabel == <<"A", "s", "s", "i", "s", "t", "a", "n", "t", ":">>

ErrorLabel == <<"U+26A0", "U+FE0F", " ", "E", "r", "r", "o", "r", ":">>

Sentinel == <<"q", "u", "i", "t">>

\* The process has not ended.
NoExitStatus == -1

\* Exit status of the interpreter when the script runs to its end.
ExitSuccess == 0

\* Exit status of the interpreter when an exception is not caught.
ExitUncaught == 1

\* The value of a local variable that has not been assigned yet.
Unbound == <<"(unbound)">>

(***************************************************************************)
(* Messages.                                                               *)
(***************************************************************************)
HumanMessage(content) == [type |-> "human", content |-> content]

AIMessage(content) == [type |-> "ai", content |-> content]

(***************************************************************************)
(* The environment: lines typed by the user, texts returned by the model   *)
(* service, descriptions of the exceptions it raises.                      *)
(***************************************************************************)
Lines ==
    { <<"q", "u", "i", "t">>,
      <<"Q", "U", "I", "T">>,
      <<" ", " ", "Q", "u", "i", "t", " ", " ">>,
      <<"\t", "q", "u", "I", "T">>,
      <<"q", "u", "i", "t", " ", "n", "o", "w">>,
      <<"d", "o", "n", "t", " ", "q", "u", "i", "t">>,
      <<"H", "e", "l", "l", "o">>,
      <<" ", "h", "i", " ">>,
      <<>>,
      <<" ", "\t">> }

Responses ==
    { <<"H", "i", " ", "t", "h", "e", "r", "e", "!">>,
      <<"q", "u", "i", "t">> }

Errors ==
    { <<"q", "u", "o", "t", "a", " ", "e", "x", "c", "e", "e", "d", "e", "d">>,
      <<"t", "i", "m", "e", "o", "u", "t">> }

(***************************************************************************)
(* State.                                                                  *)
(***************************************************************************)
VARIABLES
    pc,            \* position of main(): "input", "check", "invoke",
                   \* "print", "append_ai", "except", "stopped", "crashed"
    chat_history,  \* the list chat_history
    line,          \* the line input() returned in the current iteration
    user_input,    \* the local user_input
    response,      \* response.content of the last successful invoke
    e,             \* str(e) of the caught exception
    output,        \* standard output: one entry per print() call
    calls,         \* the invocations of model.invoke made so far
    reads,         \* number of lines input() has returned
    iterations,    \* number of loop bodies that ran to their end
    iter_start,    \* chat_history as it was when the iteration started
    exit_status    \* exit status of the process, NoExitStatus while it runs

vars == <<pc, chat_history, line, user_input, response, e, output, calls,
          reads, iterations, iter_start, exit_status>>

\* main() up to the loop: the two banner lines are printed, the history is
\* the empty list.
Init ==
    /\ pc = "input"
    /\ chat_history = <<>>
    /\ line = Unbound
    /\ user_input = Unbound
    /\ response = Unbound
    /\ e = Unbound
    /\ output = <<PrintCall(<<BannerWelcome>>), PrintCall(<<BannerHelp>>)>>
    /\ calls = <<>>
    /\ reads = 0
    /\ iterations = 0
    /\ iter_start = <<>>
    /\ exit_status = NoExitStatus

(***************************************************************************)
(* The statements of the loop.                                             *)
(***************************************************************************)
\* user_input = input("You: ").strip(), input() returning the line l.
Input(l) ==
    /\ pc = "input"
    /\ reads < MaxReads
    /\ line' = l
    /\ user_input' = Strip(l)
    /\ reads' = reads + 1
    /\ iter_start' = chat_history
    /\ pc' = "check"
    /\ UNCHANGED <<exit_status, chat_history, response, e, output, calls, iterations>>

\* input("You: ") raises (EOFError at the end of the input stream,
\* KeyboardInterrupt): the statement is outside the try block, the exception
\* leaves main() and the interpreter ends with a traceback.
InputRaises ==
    /\ pc = "input"
    /\ pc' = "crashed"
    /\ exit_status' = ExitUncaught
    /\ UNCHANGED <<chat_history, line, user_input, response, e, output,
                   calls, reads, iterations, iter_start>>

\* A plausible slip: the input is recorded before it is compared.
Quit_AppendsFirst ==
    /\ pc = "check"
    /\ Lower(user_input) = Sentinel
    /\ chat_history' = Append(chat_history, HumanMessage(user_input))
    /\ output' = Append(output, PrintCall(<<Farewell>>))
    /\ pc' = "stopped"
    /\ UNCHANGED <<exit_status, line, user_input, response, e, calls, reads, iterations,
                   iter_start>>

\* if user_input.lower() == "quit": print("Goodbye! ..."); break
Quit ==
    /\ pc = "check"
    /\ Lower(user_input) = Sentinel
    /\ output' = Append(output, PrintCall(<<Farewell>>))
    /\ pc' = "stopped"
    /\ UNCHANGED <<exit_status, chat_history, line, user_input, response, e, calls,
                   reads, iterations, iter_start>>

\* A plausible slip: the history is rebuilt from the new message alone.
AppendUser_Resets ==
    /\ pc = "check"
    /\ Lower(user_input) # Sentinel
    /\ chat_history' = <<HumanMessage(user_input)>>
    /\ pc' = "invoke"
    /\ UNCHANGED <<exit_status, line, user_input, response, e, output, calls, reads,
                   iterations, iter_start>>

\* A plausible slip: an empty input is skipped.
AppendUser_SkipsEmpty ==
    /\ pc = "check"
    /\ Lower(user_input) # Sentinel
    /\ chat_history' = IF user_input = <<>> THEN chat_history
                       ELSE Append(chat_history, HumanMessage(user_input))
    /\ pc' = IF user_input = <<>> THEN "input" ELSE "invoke"
    /\ UNCHANGED <<exit_status, line, user_input, response, e, output, calls,
                   reads, iterations, iter_start>>

\* The comparison is false: chat_history.append(HumanMessage(content=user_input))
AppendUser ==
    /\ pc = "check"
    /\ Lower(user_input) # Sentinel
    /\ chat_history' = Append(chat_history, HumanMessage(user_input))
    /\ pc' = "invoke"
    /\ UNCHANGED <<exit_status, line, user_input, response, e, output, calls, reads,
                   iterations, iter_start>>

\* A plausible slip: only the newest message is sent.
InvokeArgument_NewestOnly == <<chat_history[Len(chat_history)]>>

\* The argument of model.invoke(chat_history).
InvokeArgument == chat_history

\* What is known of one invocation: the messages it received, the number of
\* lines read when it was made, whether it returned.
Call(ok) == [messages |-> InvokeArgument, at_read |-> reads, ok |-> ok]

\* response = model.invoke(chat_history) returns a message of content r.
InvokeOk(r) ==
    /\ pc = "invoke"
    /\ calls' = Append(calls, Call(TRUE))
    /\ response' = r
    /\ pc' = "print"
    /\ UNCHANGED <<exit_status, chat_history, line, user_input, e, output, reads,
                   iterations, iter_start>>

\* A plausible slip: a failed call is made again.
InvokeFail_Retries(d) ==
    /\ pc = "invoke"
    /\ calls' = Append(calls, Call(FALSE))
    /\ e' = d
    /\ pc' = IF Len(calls) < 2 * MaxReads THEN "invoke" ELSE "except"
    /\ UNCHANGED <<exit_status, chat_history, line, user_input, response, output, reads,
                   iterations, iter_start>>

\* model.invoke(chat_history) raises an Exception described by d, which the
\* except clause catches.
InvokeFail(d) ==
    /\ pc = "invoke"
    /\ calls' = Append(calls, Call(FALSE))
    /\ e' = d
    /\ pc' = "except"
    /\ UNCHANGED <<exit_status, chat_history, line, user_input, response, output, reads,
                   iterations, iter_start>>

\* A plausible slip: the answer is recorded but not shown.
PrintAssistant_Silent ==
    /\ pc = "print"
    /\ pc' = "append_ai"
    /\ UNCHANGED <<exit_status, chat_history, line, user_input, response, e, output,
                   calls, reads, iterations, iter_start>>

\* print("Assistant:", response.content, "\n")
PrintAssistant ==
    /\ pc = "print"
    /\ output' = Append(output, PrintCall(<<AssistantLabel, response, <<"\n">>>>))
    /\ pc' = "append_ai"
    /\ UNCHANGED <<exit_status, chat_history, line, user_input, response, e, calls,
                   reads, iterations, iter_start>>

\* A plausible slip: only the last exchange is kept once the history has
\* grown.
AppendAI_KeepsLastExchange ==
    /\ pc = "append_ai"
    /\ chat_history' =
          IF Len(chat_history) >= 3
          THEN <<chat_history[Len(chat_history)], AIMessage(response)>>
          ELSE Append(chat_history, AIMessage(response))
    /\ iterations' = iterations + 1
    /\ pc' = "input"
    /\ UNCHANGED <<exit_status, line, user_input, response, e, output, calls,
                   reads, iter_start>>

\* A plausible slip: the user's text is recorded as the answer.
AppendAI_RecordsInput ==
    /\ pc = "append_ai"
    /\ chat_history' = Append(chat_history, AIMessage(user_input))
    /\ iterations' = iterations + 1
    /\ pc' = "input"
    /\ UNCHANGED <<exit_status, line, user_input, response, e, output, calls,
                   reads, iter_start>>

\* A plausible slip: the answer is shown but not recorded.
AppendAI_Forgets ==
    /\ pc = "append_ai"
    /\ iterations' = iterations + 1
    /\ pc' = "input"
    /\ UNCHANGED <<exit_status, chat_history, line, user_input, response, e, output,
                   calls, reads, iter_start>>

\* chat_history.append(AIMessage(content=response.content)); the body ends
\* and control returns to the head of the loop.
AppendAI ==
    /\ pc = "append_ai"
    /\ chat_history' = Append(chat_history, AIMessage(response))
    /\ iterations' = iterations + 1
    /\ pc' = "input"
    /\ UNCHANGED <<exit_status, line, user_input, response, e, output, calls, reads,
                   iter_start>>

\* A plausible slip: the exception is raised again after it is reported.
PrintError_Reraises ==
    /\ pc = "except"
    /\ output' = Append(output, PrintCall(<<ErrorLabel, e>>))
    /\ pc' = "crashed"
    /\ exit_status' = ExitUncaught
    /\ UNCHANGED <<chat_history, line, user_input, response, e, calls,
                   reads, iterations, iter_start>>

\* A plausible slip: the error text is recorded as the assistant's answer.
PrintError_RecordsError ==
    /\ pc = "except"
    /\ output' = Append(output, PrintCall(<<ErrorLabel, e>>))
    /\ chat_history' = Append(chat_history, AIMessage(e))
    /\ pc' = "stopped"
    /\ UNCHANGED <<exit_status, line, user_input, response, e, calls, reads, iterations,
                   iter_start>>

\* A plausible slip: the break is missing and the loop goes on.
PrintError_NoBreak ==
    /\ pc = "except"
    /\ output' = Append(output, PrintCall(<<ErrorLabel, e>>))
    /\ pc' = "input"
    /\ UNCHANGED <<exit_status, chat_history, line, user_input, response, e, calls,
                   reads, iterations, iter_start>>

\* except Exception as e: print("... Error:", e); break
PrintError ==
    /\ pc = "except"
    /\ output' = Append(output, PrintCall(<<ErrorLabel, e>>))
    /\ pc' = "stopped"
    /\ UNCHANGED <<exit_status, chat_history, line, user_input, response, e, calls,
                   reads, iterations, iter_start>>

\* The loop has been left by a break: main() returns, the script is at its
\* end and the interpreter exits.
MainReturns ==
    /\ pc = "stopped"
    /\ exit_status = NoExitStatus
    /\ exit_status' = ExitSuccess
    /\ UNCHANGED <<pc, chat_history, line, user_input, response, e, output,
                   calls, reads, iterations, iter_start>>

Next ==
    \/ \E l \in Lines : Input(l)
    \/ InputRaises
    \/ Quit
    \/ AppendUser
    \/ \E r \in Responses : InvokeOk(r)
    \/ \E d \in Errors : InvokeFail(d)
    \/ PrintAssistant
    \/ AppendAI
    \/ PrintError
    \/ MainReturns

Spec == Init /\ [][Next]_vars

\* The statements main() executes by itself, one after the other.
ProgramStep ==
    \/ Quit
    \/ AppendUser
    \/ PrintAssistant
    \/ AppendAI
    \/ PrintError
    \/ MainReturns

\* The single thread goes on to its next statement; a call of the service
\* ends, by a return or by an exception; a line is read when input() is
\* called and the stream has one.
LiveSpec ==
    /\ Spec
    /\ WF_vars(ProgramStep)
    /\ WF_vars(\E r \in Responses : InvokeOk(r))
    /\ WF_vars(\E d \in Errors : InvokeFail(d))
    /\ WF_vars(\E l \in Lines : Input(l))

(***************************************************************************)
(* Observations used by the properties.                                    *)
(***************************************************************************)
Last(s) == s[Len(s)]

IsPrefix(s, t) == Len(s) <= Len(t) /\ SubSeq(t, 1, Len(s)) = s

\* The number of messages of type ty in the history h.
RECURSIVE CountType(_, _)
CountType(h, ty) ==
    IF h = <<>> THEN 0
    ELSE (IF Head(h).type = ty THEN 1 ELSE 0) + CountType(Tail(h), ty)

UserTurns == CountType(chat_history, "human")

AssistantTurns == CountType(chat_history, "ai")

\* Roles alternate, the first one being the user's.
Alternates(h) ==
    \A i \in 1..Len(h) : h[i].type = (IF i % 2 = 1 THEN "human" ELSE "ai")

\* A line that is the sentinel up to letter case and surrounding whitespace,
\* stated on the characters of the line: whitespace, then one of q/Q, u/U,
\* i/I, t/T each, then whitespace.
IsSentinelLine(l) ==
    \E i \in 0..Len(l) :
        /\ i + 4 <= Len(l)
        /\ \A k \in 1..i : l[k] \in Whitespace
        /\ l[i + 1] \in {"q", "Q"}
        /\ l[i + 2] \in {"u", "U"}
        /\ l[i + 3] \in {"i", "I"}
        /\ l[i + 4] \in {"t", "T"}
        /\ \A k \in (i + 5)..Len(l) : l[k] \in Whitespace

\* Standard output after the two banner lines.
OutputBody == SubSeq(output, 3, Len(output))

FarewellLine == Farewell \o <<"\n">>

IsFarewellLine(o) == o = FarewellLine

IsAssistantLine(o) == IsPrefix(AssistantLabel \o <<" ">>, o)

IsErrorLine(o) == IsPrefix(ErrorLabel \o <<" ">>, o)

\* The number of entries of the output o that are messages of an iteration
\* (an assistant line or an error line).
RECURSIVE CountMessages(_)
CountMessages(o) ==
    IF o = <<>> THEN 0
    ELSE (IF IsAssistantLine(Head(o)) \/ IsErrorLine(Head(o)) THEN 1 ELSE 0)
         + CountMessages(Tail(o))

RECURSIVE CountFarewells(_)
CountFarewells(o) ==
    IF o = <<>> THEN 0
    ELSE (IF IsFarewellLine(Head(o)) THEN 1 ELSE 0) + CountFarewells(Tail(o))

\* The last invocation of the service raised.
Failed == calls # <<>> /\ ~Last(calls).ok

\* The loop is running: main() has neither left the loop nor been left by
\* an exception.
Running == pc \notin {"stopped", "crashed"}

\* The output shows that the loop has stopped: the last thing printed is the
\* farewell line or an error line.
StoppedShown ==
    /\ OutputBody # <<>>
    /\ IsFarewellLine(Last(output)) \/ IsErrorLine(Last(output))

\* t is l without its surrounding whitespace, stated on the characters:
\* l is whitespace, then t, then whitespace, and t neither starts nor ends
\* with whitespace.
IsTrimOf(t, l) ==
    /\ t # <<>> => (t[1] \notin Whitespace /\ t[Len(t)] \notin Whitespace)
    /\ \E i \in 0..Len(l) :
          /\ i + Len(t) <= Len(l)
          /\ \A k \in 1..i : l[k] \in Whitespace
          /\ \A k \in 1..Len(t) : l[i + k] = t[k]
          /\ \A k \in (i + Len(t) + 1)..Len(l) : l[k] \in Whitespace

\* The line of standard output that shows the answer r: the label, a space,
\* the text, a space, the newline passed as an argument and the newline
\* that ends the call.
AssistantLineOf(r) == AssistantLabel \o <<" ">> \o r \o <<" ", "\n", "\n">>

\* The call of the current iteration is pending: the user message has been
\* appended and the try block has not been left, the call being about to be
\* made or its outcome (the answer, the exception) still being handled.
CallPending == pc \in {"invoke", "print", "append_ai", "except"}

(***************************************************************************)
(* Properties.                                                             *)
(***************************************************************************)

\* C1: whenever control is at the head of the loop after N iterations that
\* ran to their end (every line read so far was not the sentinel and every
\* call returned), the history has exactly 2N messages: N of the user and N
\* of the assistant, alternating, the first being the user's.
C1_LengthIsTwiceIterations ==
    pc = "input" =>
        /\ iterations = reads
        /\ Len(chat_history) = 2 * iterations
        /\ UserTurns = iterations
        /\ AssistantTurns = iterations
        /\ Alternates(chat_history)

C1_Witness == pc = "input" /\ iterations = 2 /\ Len(chat_history) = 4

\* C2: once a call of the service has failed, the history is the history of
\* the start of that iteration plus exactly one message, the user's message
\* that was sent with the failing call; no assistant message follows it, no
\* further line is read, and control only goes on to the error message and
\* out of the loop.
C2_FailureKeepsUserTurnOnly ==
    Failed =>
        /\ pc \in {"except", "stopped"}
        /\ Len(chat_history) = Len(iter_start) + 1
        /\ IsPrefix(iter_start, chat_history)
        /\ Last(chat_history).type = "human"
        /\ Last(chat_history) = Last(Last(calls).messages)
        /\ reads = Last(calls).at_read

C2_Witness ==
    /\ pc = "stopped"
    /\ Failed
    /\ iter_start # <<>>
    /\ chat_history = Append(iter_start, HumanMessage(user_input))

\* C3: the line read in an iteration ends the loop through the farewell
\* exactly when it is "quit" up to letter case and surrounding whitespace;
\* any other line, also one that only contains "quit", is appended as a user
\* message and the call follows.  No user message of the history is the
\* sentinel.
C3_SentinelIffTrimmedCaselessQuit ==
    /\ [][pc = "check" =>
            /\ IsSentinelLine(line) <=>
                  (pc' = "stopped" /\ IsFarewellLine(Last(output')))
            /\ ~IsSentinelLine(line) <=>
                  /\ pc' = "invoke"
                  /\ Len(chat_history') = Len(chat_history) + 1
                  /\ IsPrefix(chat_history, chat_history')
                  /\ Last(chat_history').type = "human"]_vars
    /\ [](\A i \in 1..Len(chat_history) :
            chat_history[i].type = "human"
                => ~IsSentinelLine(chat_history[i].content))

C3_Witness ==
    /\ pc = "stopped"
    /\ IsFarewellLine(Last(output))
    /\ Len(line) > Len(Sentinel)
    /\ line[Len(line)] \in Whitespace
    /\ Lower(line) # line

\* C4: the iteration that reads the sentinel makes no call of the service
\* and leaves the history as it is; it prints the farewell line and stops
\* the loop, nothing else.  When the sentinel is the first line read, the
\* run ends with no call made and an empty history.
C4_SentinelIterationFrame ==
    /\ [][(pc = "check" /\ IsSentinelLine(line)) =>
            /\ calls' = calls
            /\ chat_history' = chat_history
            /\ reads' = reads
            /\ output' = Append(output, FarewellLine)
            /\ pc' = "stopped"]_vars
    /\ []((pc = "stopped" /\ reads = 1 /\ IsSentinelLine(line)) =>
            /\ calls = <<>>
            /\ chat_history = <<>>
            /\ OutputBody = <<FarewellLine>>)

C4_Witness ==
    /\ pc = "stopped"
    /\ reads = 1
    /\ IsSentinelLine(line)
    /\ OutputBody = <<FarewellLine>>

\* C5: the history starts empty, and every step leaves the history it found
\* as a prefix of the history it leaves, which is longer by one message at
\* most.
C5_AppendOnly ==
    /\ chat_history = <<>>
    /\ [][/\ IsPrefix(chat_history, chat_history')
          /\ Len(chat_history') <= Len(chat_history) + 1]_vars

C5_Witness == Len(chat_history) >= 4 /\ pc = "invoke"

\* C6: the loop stops running only when the sentinel has been read or when
\* a call of the service has failed.
C6_OnlySentinelOrServiceErrorStops ==
    [][(Running /\ ~Running') =>
          \/ pc = "check" /\ IsSentinelLine(line)
          \/ pc = "except" /\ Failed]_vars

\* C7: once the loop has stopped, by the sentinel or by an error of the
\* service, nothing more happens: no line is read, no call is made, no
\* message is appended and nothing is printed.
C7_StoppedIsTerminal ==
    /\ [](StoppedShown <=> pc = "stopped")
    /\ [][StoppedShown =>
            /\ reads' = reads
            /\ calls' = calls
            /\ chat_history' = chat_history
            /\ output' = output
            /\ pc' = pc]_vars

C7_Witness ==
    /\ pc = "stopped"
    /\ IsErrorLine(Last(output))
    /\ reads < MaxReads

\* C8: the k-th call of the service receives the whole history of that
\* moment: the first 2k-1 messages, in order, the last one being the user's
\* message made from the line of that iteration.
C8_CallReceivesFullHistory ==
    \A k \in 1..Len(calls) :
        /\ Len(calls[k].messages) = 2 * k - 1
        /\ calls[k].messages = SubSeq(chat_history, 1, 2 * k - 1)
        /\ Last(calls[k].messages).type = "human"
        /\ calls[k].at_read = reads
              => Last(calls[k].messages) = HumanMessage(user_input)

C8_Witness == Len(calls) >= 2 /\ Len(Last(calls).messages) >= 3

\* C9: each user message leads to exactly one call: the calls made are as
\* many as the user messages, less the one whose call is still to be made;
\* the k-th call is made when exactly k lines have been read; a call that
\* failed is the last call.
C9_OneCallPerUserTurn ==
    /\ Len(calls) = UserTurns - (IF pc = "invoke" THEN 1 ELSE 0)
    /\ \A k \in 1..Len(calls) :
          /\ calls[k].at_read = k
          /\ ~calls[k].ok => k = Len(calls)

C9_Witness ==
    /\ Len(calls) >= 2
    /\ ~Last(calls).ok
    /\ calls[1].ok
    /\ pc = "stopped"

\* C10: the j-th iteration whose line is not the sentinel prints exactly one
\* message, the assistant line if its call returned and the error line if it
\* failed; the farewell line is printed once in a run that the sentinel ends,
\* as the last output, and not at all otherwise.
C10_OneMessagePerIteration ==
    /\ CountMessages(OutputBody) <= UserTurns
    /\ CountFarewells(OutputBody) = (IF pc = "stopped" /\ ~Failed THEN 1 ELSE 0)
    /\ CountFarewells(OutputBody) = 1 => IsFarewellLine(Last(output))
    /\ \A j \in 1..Len(OutputBody) :
          j <= Len(calls) =>
              /\ calls[j].ok => IsAssistantLine(OutputBody[j])
              /\ ~calls[j].ok => IsErrorLine(OutputBody[j])
    /\ pc \in {"input", "stopped", "crashed"} =>
          /\ CountMessages(OutputBody) = UserTurns
          /\ Len(OutputBody) = UserTurns + CountFarewells(OutputBody)

C10_Witness ==
    /\ pc = "stopped"
    /\ ~Failed
    /\ UserTurns = 2
    /\ Len(OutputBody) = 3

\* C11: the process ends with the same exit status, that of a script that
\* ran to its end, whether the loop was left on the sentinel or on an error
\* of the service: the error is printed, the loop is left and main()
\* returns; the exception never leaves main().
C11_SameExitStatusOnBothStops ==
    /\ Failed => pc # "crashed"
    /\ (exit_status # NoExitStatus /\ StoppedShown) =>
          /\ pc = "stopped"
          /\ exit_status = ExitSuccess
    /\ exit_status = ExitUncaught => (pc = "crashed" /\ ~StoppedShown)

C11_Witness ==
    /\ exit_status = ExitSuccess
    /\ Failed
    /\ IsErrorLine(Last(output))

\* C12: in an iteration whose call returns, the user message appended has
\* the line without its surrounding whitespace as content; the assistant
\* line printed is the label followed by the text the service returned,
\* unchanged; the assistant message appended has that same text as content;
\* and the line is printed before the message is appended.
C12_ContentCarriedUnchanged ==
    /\ [][(pc = "check" /\ pc' = "invoke") =>
            /\ Last(chat_history').type = "human"
            /\ IsTrimOf(Last(chat_history').content, line)]_vars
    /\ [][pc = "print" =>
            /\ output' = Append(output, AssistantLineOf(response))
            /\ chat_history' = chat_history]_vars
    /\ [][pc = "append_ai" =>
            /\ chat_history' =
                  Append(chat_history, [type |-> "ai", content |-> response])
            /\ output' = output]_vars
    /\ [](pc = "append_ai" =>
            /\ Last(output) = AssistantLineOf(response)
            /\ Last(chat_history).type = "human")
    /\ [](\A k \in 1..AssistantTurns :
            /\ chat_history[2 * k].type = "ai"
            /\ OutputBody[k] = AssistantLineOf(chat_history[2 * k].content))

C12_Witness ==
    /\ line = <<"H", "e", "l", "l", "o">>
    /\ chat_history =
          << [type |-> "human", content |-> <<"H", "e", "l", "l", "o">>],
             [type |-> "ai",
              content |-> <<"H", "i", " ", "t", "h", "e", "r", "e", "!">>] >>
    /\ OutputBody =
          << <<"A", "s", "s", "i", "s", "t", "a", "n", "t", ":", " ",
               "H", "i", " ", "t", "h", "e", "r", "e", "!", " ", "\n", "\n">> >>

\* C13: in every state the history never holds two consecutive messages of
\* the same role, and the user messages are as many as the assistant
\* messages or one more.  They are as many (the history is empty or ends
\* with an assistant message) while a line is read or compared; they are one
\* more (the history ends with a user message) exactly while the call of the
\* iteration is pending, and after the loop has stopped on an error of the
\* service.
C13_RolesBalanced ==
    /\ \A i \in 1..(Len(chat_history) - 1) :
          chat_history[i].type # chat_history[i + 1].type
    /\ UserTurns - AssistantTurns \in {0, 1}
    /\ pc \in {"input", "check", "crashed"} =>
          /\ UserTurns = AssistantTurns
          /\ Len(chat_history) % 2 = 0
          /\ chat_history # <<>> => Last(chat_history).type = "ai"
    /\ UserTurns = AssistantTurns + 1 <=>
          \/ CallPending
          \/ pc = "stopped" /\ Failed
    /\ UserTurns = AssistantTurns + 1 => Last(chat_history).type = "human"

C13_Witness ==
    /\ pc = "stopped"
    /\ Failed
    /\ UserTurns = 2
    /\ AssistantTurns = 1

\* C14: a line that is empty or holds only whitespace is neither skipped nor
\* taken for the sentinel: a user message of empty content is appended and
\* the service is called with it.
C14_BlankLineIsSent ==
    /\ [][(pc = "check" /\ \A k \in 1..Len(line) : line[k] \in Whitespace) =>
            /\ pc' = "invoke"
            /\ chat_history' =
                  Append(chat_history, [type |-> "human", content |-> <<>>])
            /\ output' = output]_vars
    /\ [][(pc = "invoke" /\ Last(chat_history).content = <<>>) =>
            /\ Len(calls') = Len(calls) + 1
            /\ Last(calls').messages = chat_history
            /\ pc' \in {"print", "except"}]_vars

C14_Witness ==
    /\ line = <<" ", "\t">>
    /\ calls # <<>>
    /\ Last(calls).at_read = reads
    /\ Last(Last(calls).messages) = [type |-> "human", content |-> <<>>]
    /\ pc = "print"

\* C15: when reads and calls return, a sentinel that has been read and a
\* call that has failed each lead to the stop of the loop; the loop stops
\* for no other reason; the history never shrinks, and as long as the loop
\* neither stops nor is left by an exception of input() the history grows
\* up to two messages for every line the run reads, with no other limit.
C15_StopsOnlyOnSentinelOrFailure ==
    /\ (pc = "check" /\ IsSentinelLine(line)) ~> (pc = "stopped")
    /\ Failed ~> (pc = "stopped")
    /\ [][(pc # "stopped" /\ pc' = "stopped") =>
            \/ pc = "check" /\ IsSentinelLine(line)
            \/ Failed]_vars
    /\ [][Len(chat_history') >= Len(chat_history)]_vars
    /\ <>(\/ pc \in {"stopped", "crashed"}
          \/ Len(chat_history) = 2 * MaxReads)

C15_Witness ==
    /\ pc = "input"
    /\ reads = MaxReads
    /\ Len(chat_history) = 2 * MaxReads
    /\ exit_status = NoExitStatus

====
